---------------------------- MODULE Spec2Model ----------------------------
(***************************************************************************)
(* Chroma Tuner: the shared sample buffer (src/src/audio.rs), the capture  *)
(* callback that fills it, and the consumer cycle of the tuner             *)
(* (src/src/tuner.rs: update_pitch_detection, switch_device) with the note *)
(* mapping of src/src/pitch.rs.                                            *)
(*                                                                         *)
(* Units.  Frequencies are integers in 1/100 Hz, magnitudes in 1/100,      *)
(* cents in 1/100 cent, time in milliseconds.  Averages and the smoothing  *)
(* are computed exactly (comparisons are cross-multiplied, the smoothed    *)
(* value is a fraction), f32 rounding is not modelled.                     *)
(*                                                                         *)
(* Scale.  BUFFER_SIZE, max_history and max_cents_history are 8192, 8 and  *)
(* 8 in the source; the model runs them at the small sizes below.  A       *)
(* sample is represented by the device whose stream pushed it: the         *)
(* transform is not computed, detect_pitch chooses its result from the     *)
(* outcomes the code can return for a window of that length.  The device   *)
(* name shown in the selector (current_device_name) is left out.           *)
(***************************************************************************)
EXTENDS Integers, Sequences, FiniteSets, TLC

\* ------------------------------------------------------------- bounds ---
BUFFER_SIZE == 4            \* audio.rs:12 (8192), scaled
max_history == 2            \* tuner.rs:54 (8), scaled
max_cents_history == 2      \* tuner.rs:62 (8), scaled
MaxNow == 750               \* the clock stops here
TickMs == 250               \* granularity of the clock
MaxSmoothExp == 2           \* consecutive smoothing steps kept exactly
NumBins == 4                \* bins of the spectrum (4097), scaled
min_freq_bin == 1           \* pitch.rs:55 (14), scaled
max_freq_bin == 2           \* pitch.rs:56 (371), scaled
MaxMagnitude == 2           \* magnitudes of a bin: 0.00, 0.01, 0.02
MaxSemitones == 26          \* pitches up to this many semitones from A4

\* ---------------------------------------------------------- constants ---
stability_threshold == 300        \* 3.0 Hz
min_magnitude_threshold == 8      \* 0.08
CentsSpreadLimit == 2000          \* 20.0 cents
StaleLowMs == 400
StaleNoneMs == 500
SemitoneCents == 10000            \* 100.0 cents per semitone
NaN == -1                         \* f32 NaN as a frequency (0.0 / 0.0)
Infinity == -2                    \* f32 infinity as a frequency (x / 0.0)

buffer_size == BUFFER_SIZE        \* tuner.rs:35, the detector's window size

Devices == { 1, 2 }               \* the input devices the host offers
DefaultDevice == 1
DeviceRate(d) == IF d = 1 THEN 44100 ELSE 48000
BatchLens == { 0, 1, BUFFER_SIZE \div 2, BUFFER_SIZE + 1 }

None == << >>
Some(x) == << x >>
IsSome(o) == Len(o) = 1
Unwrap(o) == o[1]

\* ------------------------------------------------------------ helpers ---
RECURSIVE SeqSum(_)
SeqSum(s) == IF s = << >> THEN 0 ELSE Head(s) + SeqSum(Tail(s))

\* fold(NEG_INFINITY, max) and fold(INFINITY, min) over a non-empty Vec
SeqMax(s) == CHOOSE x \in {s[i] : i \in 1..Len(s)} : \A j \in 1..Len(s) : s[j] <= x
SeqMin(s) == CHOOSE x \in {s[i] : i \in 1..Len(s)} : \A j \in 1..Len(s) : x <= s[j]

Abs(x) == IF x < 0 THEN -x ELSE x

\* Rust integer division and remainder truncate toward zero
TruncDiv(a, b) == IF a >= 0 THEN a \div b ELSE -((-a) \div b)
TruncRem(a, b) == a - b * TruncDiv(a, b)

\* f32::round: to nearest, ties away from zero; x is given as num/den
RoundAway(num, den) ==
    IF num >= 0 THEN (2 * num + den) \div (2 * den)
                ELSE -((2 * (-num) + den) \div (2 * den))

RECURSIVE InsertSorted(_, _)
InsertSorted(x, s) ==
    IF s = << >> THEN << x >>
    ELSE IF x <= Head(s) THEN << x >> \o s
    ELSE << Head(s) >> \o InsertSorted(x, Tail(s))

RECURSIVE SortAsc(_)
SortAsc(s) == IF s = << >> THEN << >> ELSE InsertSorted(Head(s), SortAsc(Tail(s)))

RECURSIVE Repeat(_, _)
Repeat(x, n) == IF n = 0 THEN << >> ELSE << x >> \o Repeat(x, n - 1)

RECURSIVE Pow5(_)
Pow5(k) == IF k = 0 THEN 1 ELSE 5 * Pow5(k - 1)

\* ------------------------------------------------------- pitch.rs -------
\* 1200 * log2(f / 440) in 1/100 cent, for the frequencies the model feeds
Log2Cents(f) ==
    CASE f = 44000 -> 0
      [] f = 44100 -> 393
      [] f = 44200 -> 785
      [] f = 44600 -> 2345
      [] f = 22000 -> -120000
      [] f = 88000 -> 120000
      [] f = 26163 -> -89997
      [] f = 49388 -> 19999
      [] f = 24694 -> -100001
      [] f = 52325 -> 30000
      [] f = 39200 -> -19998

\* pitch.rs 58-68: the first bin of largest magnitude in the searched band
RECURSIVE PeakFrom(_, _, _, _)
PeakFrom(spectrum, i, max_magnitude, max_index) ==
    IF i > Len(spectrum) - 1 \/ i > max_freq_bin
    THEN [max_magnitude |-> max_magnitude, max_index |-> max_index]
    ELSE IF spectrum[i + 1] > max_magnitude
         THEN PeakFrom(spectrum, i + 1, spectrum[i + 1], i)
         ELSE PeakFrom(spectrum, i + 1, max_magnitude, max_index)

\* pitch.rs 55-91 on the bin magnitudes of the transform (bin i is
\* spectrum[i + 1]).  The frequency is the fraction num / den in units of
\* sample_rate / buffer_size; den = 0 is the f32 result of a division by
\* zero: NaN for 0 / 0, an infinity otherwise.
detect_pitch_peak(spectrum) ==
    LET peak == PeakFrom(spectrum, min_freq_bin, 0, 0)
        max_index == peak.max_index
        max_magnitude == peak.max_magnitude
    IN  IF 2 * max_magnitude < 1          \* max_magnitude < 0.005
        THEN << >>
        ELSE LET frequency == [num |-> max_index, den |-> 1]
                 left == spectrum[max_index]
                 center == max_magnitude
                 right == spectrum[max_index + 2]
                 d == left - 2 * center + right
                 refined_frequency ==
                     IF max_index > 0 /\ max_index < Len(spectrum) - 1
                     THEN [num |-> 2 * max_index * d + (left - right), den |-> 2 * d]
                     ELSE frequency
             IN  << [frequency |-> refined_frequency, magnitude |-> max_magnitude] >>

note_names == << "C", "C#", "D", "D#", "E", "F", "F#", "G", "G#", "A", "A#", "B" >>

\* variant: the octave is 4 + c / 12 with the truncating division on both
\* sides of zero
note_at_truncating(semitones_from_a4) ==
    LET nearest_semitone == RoundAway(semitones_from_a4, SemitoneCents)
        cents_off == semitones_from_a4 - nearest_semitone * SemitoneCents
        semitones_from_c4 == nearest_semitone + 9
        note_index == TruncRem(TruncRem(semitones_from_c4, 12) + 12, 12)
        octave == 4 + TruncDiv(semitones_from_c4, 12)
    IN  [name |-> << note_names[note_index + 1], octave >>,
         cents_off |-> cents_off]

\* pitch.rs 106-130: name and cents_off for a pitch semitones_from_a4 above
\* A4, given in 1/100 cent
note_at(semitones_from_a4) ==
    LET nearest_semitone == RoundAway(semitones_from_a4, SemitoneCents)
        cents_off == semitones_from_a4 - nearest_semitone * SemitoneCents
        semitones_from_c4 == nearest_semitone + 9
        note_index == TruncRem(TruncRem(semitones_from_c4, 12) + 12, 12)
        octave == IF semitones_from_c4 >= 0
                  THEN 4 + TruncDiv(semitones_from_c4, 12)
                  ELSE 4 + TruncDiv(semitones_from_c4 - 11, 12)
    IN  [name |-> << note_names[note_index + 1], octave >>,
         cents_off |-> cents_off]

frequency_to_note(frequency) ==
    LET note == note_at(Log2Cents(frequency))
    IN  [name |-> note.name,
         frequency |-> frequency,
         cents_off |-> note.cents_off]


\* ------------------------------------------------------- audio.rs -------
\* Vec::drain(0..k) followed by dropping the drained part
Drain(s, k) == SubSeq(s, k + 1, Len(s))

\* the slice bound check of Vec::drain(0..overflow): panics when the range
\* ends past the length
push_panics(buf, new_samples) ==
    /\ Len(buf) + Len(new_samples) > BUFFER_SIZE
    /\ (Len(buf) + Len(new_samples)) - BUFFER_SIZE > Len(buf)

push_overflow(buf, new_samples) ==
    IF Len(buf) + Len(new_samples) > BUFFER_SIZE
    THEN (Len(buf) + Len(new_samples)) - BUFFER_SIZE
    ELSE 0

\* variant: the eviction is left out
push_samples_no_drain(buf, new_samples) == buf \o new_samples

push_samples(buf, new_samples) ==
    Drain(buf, push_overflow(buf, new_samples)) \o new_samples

has_new_data_of(buf, upd) == upd /\ Len(buf) >= BUFFER_SIZE \div 2

\* ------------------------------------------------------- state ----------
VARIABLES
    samples, sample_rate, updated,       \* AudioData
    lock_holder, poisoned,               \* the Mutex around AudioData
    callback,                            \* the input callback that holds the lock
    audio_capture,                       \* TunerApp: device of the owned stream
    new_capture,                         \* switch_device: the stream just opened
    detector_rate,                       \* PitchDetector.sample_rate
    cpc, snapshot, estimate,             \* position inside update_pitch_detection
    current_note, last_update,
    frequency_history, magnitude_history,
    smoothed_cents, cents_history,
    now,                                 \* the clock read by Instant::now / elapsed
    fn_in, fn_out,                       \* argument and result of a function called alone
    last_op                              \* the last completed operation: its branch,
                                         \* and the overflow of a push or whether a
                                         \* note was shown when the cycle began

bufvars  == << samples, sample_rate, updated >>
stabvars == << current_note, last_update, frequency_history, magnitude_history,
               smoothed_cents, cents_history >>
callvars == << fn_in, fn_out >>
progvars == << samples, sample_rate, updated, lock_holder, poisoned, callback,
           audio_capture, new_capture, detector_rate, cpc, snapshot, estimate,
           current_note, last_update, frequency_history, magnitude_history,
           smoothed_cents, cents_history, now, last_op >>
vars == << callvars, progvars >>

has_new_data == has_new_data_of(samples, updated)

\* the devices of the capture streams that are running: the one the app
\* owns and, inside switch_device, the one just opened
streams == { audio_capture } \cup { new_capture[i] : i \in 1..Len(new_capture) }

\* smoothed_cents is the fraction num / (max_cents_history * 5^exp), reduced
ZeroCents == [num |-> 0, exp |-> 0]

RECURSIVE Reduce(_, _)
Reduce(n, k) ==
    IF k > 0 /\ n % 5 = 0 THEN Reduce(n \div 5, k - 1) ELSE [num |-> n, exp |-> k]

\* variant: the weights 0.8 and 0.2 are exchanged
Smooth_swapped(sm, sum) == Reduce(sm.num + 4 * sum * Pow5(sm.exp), sm.exp + 1)

\* smoothed * 0.8 + (sum / len) * 0.2, len = max_cents_history
Smooth(sm, sum) == Reduce(4 * sm.num + sum * Pow5(sm.exp), sm.exp + 1)

Stab == [current_note |-> current_note, last_update |-> last_update,
         frequency_history |-> frequency_history,
         magnitude_history |-> magnitude_history,
         smoothed_cents |-> smoothed_cents, cents_history |-> cents_history]

InitStab == [current_note |-> None, last_update |-> 0,
             frequency_history |-> << >>, magnitude_history |-> << >>,
             smoothed_cents |-> ZeroCents, cents_history |-> << >>]

\* variant: cents_history.clear() is left out
ClearStab_keeps_cents(st) == [st EXCEPT !.current_note = None,
                                        !.frequency_history = << >>,
                                        !.magnitude_history = << >>,
                                        !.smoothed_cents = ZeroCents]

\* variant: current_note = None is left out
ClearStab_keeps_note(st) == [st EXCEPT !.frequency_history = << >>,
                                       !.magnitude_history = << >>,
                                       !.cents_history = << >>,
                                       !.smoothed_cents = ZeroCents]

\* variant: smoothed_cents = 0.0 is left out
ClearStab_keeps_smoothed(st) == [st EXCEPT !.current_note = None,
                                           !.frequency_history = << >>,
                                           !.magnitude_history = << >>,
                                           !.cents_history = << >>]

\* the five assignments of the reset blocks (tuner.rs 112-116, 191-195, 76-80)
ClearStab(st) == [st EXCEPT !.current_note = None,
                            !.frequency_history = << >>,
                            !.magnitude_history = << >>,
                            !.cents_history = << >>,
                            !.smoothed_cents = ZeroCents]

\* ------------------------------------------------------- tuner.rs -------
\* lines 129-148: the frequency / magnitude gate on the full history
\* The folds with f32::max and f32::min skip NaN, so the range is taken over
\* the other entries: with none left it is NEG_INFINITY - INFINITY, which is
\* below the threshold; with an infinite entry it is infinite or NaN, which
\* is not.
FreqRangeStable(fh) ==
    LET nums == SelectSeq(fh, LAMBDA x : x # NaN)
    IN  IF nums = << >> THEN TRUE
        ELSE IF \E i \in 1..Len(nums) : nums[i] = Infinity THEN FALSE
        ELSE (SeqMax(nums) - SeqMin(nums)) < stability_threshold

\* variant: the magnitudes are not compared with their average
GatePasses_no_magnitude_stable(fh, mh) ==
    LET sum == SeqSum(mh)
        n == Len(mh)
    IN  /\ FreqRangeStable(fh)
        /\ sum > min_magnitude_threshold * 2 * n

GatePasses(fh, mh) ==
    LET sum == SeqSum(mh)
        n == Len(mh)
        \* |m - avg| < avg * 0.5, avg = sum / n
        magnitude_stable == \A i \in 1..n : 2 * Abs(mh[i] * n - sum) < sum
    IN  /\ FreqRangeStable(fh)
        /\ magnitude_stable
        /\ sum > min_magnitude_threshold * 2 * n

\* line 151: partial_cmp is None when either side is NaN and the unwrap
\* panics; a slice of fewer than two entries is sorted without a comparison
SortPanics(fh) == Len(fh) >= 2 /\ \E i \in 1..Len(fh) : fh[i] = NaN

\* variant: the element at index (length - 1) / 2, the lower median
MedianFreq_lower(fh) == SortAsc(fh)[((Len(fh) - 1) \div 2) + 1]

\* lines 150-152
MedianFreq(fh) == SortAsc(fh)[(Len(fh) \div 2) + 1]

\* variant: the cents gate opens one entry early
ObserveCents_early(st, fh, mh) ==
    LET note == frequency_to_note(MedianFreq(fh))
        pushed == Append(st.cents_history, note.cents_off)
        ch == IF Len(pushed) > max_cents_history THEN Tail(pushed) ELSE pushed
        base == [st EXCEPT !.frequency_history = fh, !.magnitude_history = mh,
                           !.cents_history = ch]
    IN  IF Len(ch) >= max_cents_history - 1
        THEN IF (SeqMax(ch) - SeqMin(ch)) < CentsSpreadLimit
             THEN LET sm == Smooth(st.smoothed_cents, SeqSum(ch))
                  IN [st |-> [base EXCEPT !.smoothed_cents = sm,
                                          !.current_note =
                                              Some([note EXCEPT !.cents_off = sm]),
                                          !.last_update = now],
                      branch |-> "accept"]
             ELSE [st |-> [base EXCEPT !.current_note = None,
                                       !.cents_history = << >>,
                                       !.smoothed_cents = ZeroCents],
                   branch |-> "reject"]
        ELSE [st |-> base, branch |-> "cents_filling"]

\* variant: the cents gate opens one entry late, when an entry is evicted
ObserveCents_late(st, fh, mh) ==
    LET note == frequency_to_note(MedianFreq(fh))
        pushed == Append(st.cents_history, note.cents_off)
        ch == IF Len(pushed) > max_cents_history THEN Tail(pushed) ELSE pushed
        base == [st EXCEPT !.frequency_history = fh, !.magnitude_history = mh,
                           !.cents_history = ch]
    IN  IF Len(pushed) > max_cents_history
        THEN IF (SeqMax(ch) - SeqMin(ch)) < CentsSpreadLimit
             THEN LET sm == Smooth(st.smoothed_cents, SeqSum(ch))
                  IN [st |-> [base EXCEPT !.smoothed_cents = sm,
                                          !.current_note =
                                              Some([note EXCEPT !.cents_off = sm]),
                                          !.last_update = now],
                      branch |-> "accept"]
             ELSE [st |-> [base EXCEPT !.current_note = None,
                                       !.cents_history = << >>,
                                       !.smoothed_cents = ZeroCents],
                   branch |-> "reject"]
        ELSE [st |-> base, branch |-> "cents_filling"]

\* variant: the reject branch clears the frequency and magnitude histories too
ObserveCents_reject_clears_all(st, fh, mh) ==
    LET note == frequency_to_note(MedianFreq(fh))
        pushed == Append(st.cents_history, note.cents_off)
        ch == IF Len(pushed) > max_cents_history THEN Tail(pushed) ELSE pushed
        base == [st EXCEPT !.frequency_history = fh, !.magnitude_history = mh,
                           !.cents_history = ch]
    IN  IF Len(ch) >= max_cents_history
        THEN IF (SeqMax(ch) - SeqMin(ch)) < CentsSpreadLimit
             THEN LET sm == Smooth(st.smoothed_cents, SeqSum(ch))
                  IN [st |-> [base EXCEPT !.smoothed_cents = sm,
                                          !.current_note =
                                              Some([note EXCEPT !.cents_off = sm]),
                                          !.last_update = now],
                      branch |-> "accept"]
             ELSE [st |-> ClearStab(st), branch |-> "reject"]
        ELSE [st |-> base, branch |-> "cents_filling"]

\* lines 156-187: cents accumulation and the cents gate
ObserveCents(st, fh, mh) ==
    LET note == frequency_to_note(MedianFreq(fh))
        pushed == Append(st.cents_history, note.cents_off)
        ch == IF Len(pushed) > max_cents_history THEN Tail(pushed) ELSE pushed
        base == [st EXCEPT !.frequency_history = fh, !.magnitude_history = mh,
                           !.cents_history = ch]
    IN  IF Len(ch) >= max_cents_history
        THEN IF (SeqMax(ch) - SeqMin(ch)) < CentsSpreadLimit
             THEN LET sm == Smooth(st.smoothed_cents, SeqSum(ch))
                  IN [st |-> [base EXCEPT !.smoothed_cents = sm,
                                          !.current_note =
                                              Some([note EXCEPT !.cents_off = sm]),
                                          !.last_update = now],
                      branch |-> "accept"]
             ELSE [st |-> [base EXCEPT !.current_note = None,
                                       !.cents_history = << >>,
                                       !.smoothed_cents = ZeroCents],
                   branch |-> "reject"]
        ELSE [st |-> base, branch |-> "cents_filling"]

\* variant: the low-magnitude and no-estimate branches clear the state
\* without looking at the time since last_update
Observe_no_hold(st, est) ==
    IF IsSome(est)
    THEN LET e == Unwrap(est) IN
         IF e.magnitude < min_magnitude_threshold
         THEN [st |-> ClearStab(st), branch |-> "low_reset"]
         ELSE LET fpushed == Append(st.frequency_history, e.frequency)
                  mpushed == Append(st.magnitude_history, e.magnitude)
                  over == Len(fpushed) > max_history
                  fh == IF over THEN Tail(fpushed) ELSE fpushed
                  mh == IF over THEN Tail(mpushed) ELSE mpushed
                  base == [st EXCEPT !.frequency_history = fh,
                                     !.magnitude_history = mh]
              IN  IF Len(fh) >= max_history
                  THEN IF GatePasses(fh, mh)
                       THEN IF SortPanics(fh)
                            THEN [st |-> base, branch |-> "panic"]
                            ELSE ObserveCents(st, fh, mh)
                       ELSE [st |-> base, branch |-> "gate_closed"]
                  ELSE [st |-> base, branch |-> "filling"]
    ELSE [st |-> ClearStab(st), branch |-> "none_reset"]

\* variant: on overflow the newest magnitude is dropped, not the oldest
Observe_evicts_newest_magnitude(st, est) ==
    IF IsSome(est)
    THEN LET e == Unwrap(est) IN
         IF e.magnitude < min_magnitude_threshold
         THEN IF now - st.last_update > StaleLowMs
              THEN [st |-> ClearStab(st), branch |-> "low_reset"]
              ELSE [st |-> st, branch |-> "low_hold"]
         ELSE LET fpushed == Append(st.frequency_history, e.frequency)
                  mpushed == Append(st.magnitude_history, e.magnitude)
                  over == Len(fpushed) > max_history
                  fh == IF over THEN Tail(fpushed) ELSE fpushed
                  mh == IF over THEN st.magnitude_history ELSE mpushed
                  base == [st EXCEPT !.frequency_history = fh,
                                     !.magnitude_history = mh]
              IN  IF Len(fh) >= max_history
                  THEN IF GatePasses(fh, mh)
                       THEN IF SortPanics(fh)
                            THEN [st |-> base, branch |-> "panic"]
                            ELSE ObserveCents(st, fh, mh)
                       ELSE [st |-> base, branch |-> "gate_closed"]
                  ELSE [st |-> base, branch |-> "filling"]
    ELSE IF now - st.last_update > StaleNoneMs
         THEN [st |-> ClearStab(st), branch |-> "none_reset"]
         ELSE [st |-> st, branch |-> "none_hold"]

\* lines 109-196: everything after get_samples, for the estimate est
Observe(st, est) ==
    IF IsSome(est)
    THEN LET e == Unwrap(est) IN
         IF e.magnitude < min_magnitude_threshold
         THEN IF now - st.last_update > StaleLowMs
              THEN [st |-> ClearStab(st), branch |-> "low_reset"]
              ELSE [st |-> st, branch |-> "low_hold"]
         ELSE LET fpushed == Append(st.frequency_history, e.frequency)
                  mpushed == Append(st.magnitude_history, e.magnitude)
                  over == Len(fpushed) > max_history
                  fh == IF over THEN Tail(fpushed) ELSE fpushed
                  mh == IF over THEN Tail(mpushed) ELSE mpushed
                  base == [st EXCEPT !.frequency_history = fh,
                                     !.magnitude_history = mh]
              IN  IF Len(fh) >= max_history
                  THEN IF GatePasses(fh, mh)
                       THEN IF SortPanics(fh)
                            THEN [st |-> base, branch |-> "panic"]
                            ELSE ObserveCents(st, fh, mh)
                       ELSE [st |-> base, branch |-> "gate_closed"]
                  ELSE [st |-> base, branch |-> "filling"]
    ELSE IF now - st.last_update > StaleNoneMs
         THEN [st |-> ClearStab(st), branch |-> "none_reset"]
         ELSE [st |-> st, branch |-> "none_hold"]

SetStab(st) ==
    /\ current_note' = st.current_note
    /\ last_update' = st.last_update
    /\ frequency_history' = st.frequency_history
    /\ magnitude_history' = st.magnitude_history
    /\ smoothed_cents' = st.smoothed_cents
    /\ cents_history' = st.cents_history

\* pitch.rs 36-92: the outcomes of detect_pitch on a window.  Fewer than
\* buffer_size samples give None; otherwise None (noise floor, transform
\* error) or a (frequency, magnitude) pair.
Estimates ==
    { [frequency |-> 44200, magnitude |-> 30],
      [frequency |-> 44200, magnitude |-> 5] }

\* pitch.rs 41-46: samples.iter().take(buffer_size)
AnalysisWindow(snap) == SubSeq(snap, 1, buffer_size)

detect_pitch(snap) ==
    IF Len(snap) < buffer_size THEN { None }
    ELSE { None } \cup { Some(e) : e \in Estimates }

\* a wider set of outcomes: loud frequencies 1 Hz and 6 Hz apart, one below
\* the magnitude threshold, and the NaN frequency the interpolation of
\* pitch.rs 85 yields on 0.0 / 0.0
WideEstimates ==
    { [frequency |-> 44000, magnitude |-> 30],
      [frequency |-> 44100, magnitude |-> 30],
      [frequency |-> 44600, magnitude |-> 30],
      [frequency |-> 44000, magnitude |-> 5],
      [frequency |-> NaN, magnitude |-> 30] }

detect_pitch_wide(snap) ==
    IF Len(snap) < buffer_size THEN { None }
    ELSE { None } \cup { Some(e) : e \in WideEstimates }


\* ------------------------------------------------------- Init -----------
\* main.rs 62-71: the buffer, the first capture stream on the default
\* device, then TunerApp::new, which builds the detector from the rate the
\* stream stored in the buffer.
InitApp ==
    LET d == DefaultDevice IN
        /\ samples = << >>
        /\ sample_rate = DeviceRate(d)
        /\ updated = FALSE
        /\ lock_holder = "free"
        /\ poisoned = FALSE
        /\ callback = None
        /\ audio_capture = d
        /\ new_capture = None
        /\ detector_rate = DeviceRate(d)
        /\ cpc = "idle"
        /\ snapshot = << >>
        /\ estimate = None
        /\ current_note = InitStab.current_note
        /\ last_update = InitStab.last_update
        /\ frequency_history = InitStab.frequency_history
        /\ magnitude_history = InitStab.magnitude_history
        /\ smoothed_cents = InitStab.smoothed_cents
        /\ cents_history = InitStab.cents_history
        /\ now = 0
        /\ last_op = << "init", 0 >>

Init ==
    /\ InitApp
    /\ fn_in = << >>
    /\ fn_out = << >>

appvars == << audio_capture, new_capture, detector_rate >>
cyclevars == << cpc, snapshot, estimate >>

\* ------------------------------------------------------- the clock ------
Tick ==
    /\ now + TickMs <= MaxNow
    /\ now' = now + TickMs
    /\ UNCHANGED last_op
    /\ UNCHANGED << bufvars, lock_holder, poisoned, callback, appvars,
                    cyclevars, stabvars >>
    /\ UNCHANGED callvars

\* ------------------------------------------------------- producer -------
\* audio.rs 109-115: the input callback of a live stream converts its batch
\* and takes the lock (blocking)
callback_lock ==
    \E s \in streams, n \in BatchLens :
        /\ callback = None
        /\ lock_holder = "free"
        /\ ~poisoned
        /\ lock_holder' = "producer"
        /\ callback' = Some([stream |-> s, len |-> n])
        /\ UNCHANGED last_op
        /\ UNCHANGED << bufvars, poisoned, appvars, cyclevars, stabvars, now >>
        /\ UNCHANGED callvars

\* audio.rs 115: lock() on a poisoned mutex is Err, the batch is dropped
callback_lock_poisoned ==
    \E s \in streams, n \in BatchLens :
        /\ callback = None
        /\ lock_holder = "free"
        /\ poisoned
        /\ last_op' = << "push_dropped", n >>
        /\ UNCHANGED << bufvars, lock_holder, poisoned, callback, appvars,
                        cyclevars, stabvars, now >>
        /\ UNCHANGED callvars

\* audio.rs 116-117 with 30-38: push_samples under the lock, then the guard
\* is dropped; a panic inside push_samples poisons the mutex
callback_push ==
    /\ IsSome(callback)
    /\ LET cb == Unwrap(callback)
           new_samples == Repeat(cb.stream, cb.len)
       IN  IF push_panics(samples, new_samples)
           THEN /\ poisoned' = TRUE
                /\ last_op' = << "push_panic", push_overflow(samples, new_samples) >>
                /\ UNCHANGED bufvars
           ELSE /\ samples' = push_samples(samples, new_samples)
                /\ updated' = TRUE
                /\ last_op' = << "push", push_overflow(samples, new_samples) >>
                /\ UNCHANGED << sample_rate, poisoned >>
    /\ lock_holder' = "free"
    /\ callback' = None
    /\ UNCHANGED << appvars, cyclevars, stabvars, now >>
    /\ UNCHANGED callvars

\* ------------------------------------------------------- consumer -------
\* tuner.rs 105: try_lock fails (held, or poisoned): the cycle ends
update_try_lock_fails ==
    /\ cpc = "idle"
    /\ new_capture = None
    /\ (lock_holder # "free" \/ poisoned)
    /\ last_op' = << "skip", 0 >>
    /\ UNCHANGED << bufvars, lock_holder, poisoned, callback, appvars,
                    cyclevars, stabvars, now >>
    /\ UNCHANGED callvars

\* tuner.rs 105-106: lock taken, has_new_data false, guard dropped
update_no_new_data ==
    /\ cpc = "idle"
    /\ new_capture = None
    /\ lock_holder = "free"
    /\ ~poisoned
    /\ ~has_new_data
    /\ last_op' = << "no_new_data", 0 >>
    /\ UNCHANGED << bufvars, lock_holder, poisoned, callback, appvars,
                    cyclevars, stabvars, now >>
    /\ UNCHANGED callvars

\* variant: the buffer is read whether or not the lock was obtained
update_get_samples_unlocked ==
    /\ cpc = "idle"
    /\ new_capture = None
    /\ ~poisoned
    /\ has_new_data
    /\ lock_holder' = "consumer"
    /\ updated' = FALSE
    /\ snapshot' = samples
    /\ cpc' = "detect"
    /\ UNCHANGED last_op
    /\ UNCHANGED << samples, sample_rate, poisoned, callback, appvars,
                    estimate, stabvars, now >>
    /\ UNCHANGED callvars

\* variant: get_samples leaves the updated flag set
update_get_samples_keeps_flag ==
    /\ cpc = "idle"
    /\ new_capture = None
    /\ lock_holder = "free"
    /\ ~poisoned
    /\ has_new_data
    /\ lock_holder' = "consumer"
    /\ snapshot' = samples
    /\ cpc' = "detect"
    /\ UNCHANGED last_op
    /\ UNCHANGED << bufvars, poisoned, callback, appvars,
                    estimate, stabvars, now >>
    /\ UNCHANGED callvars

\* variant: get_samples hands the content over and leaves the buffer empty
update_get_samples_takes ==
    /\ cpc = "idle"
    /\ new_capture = None
    /\ lock_holder = "free"
    /\ ~poisoned
    /\ has_new_data
    /\ lock_holder' = "consumer"
    /\ updated' = FALSE
    /\ snapshot' = samples
    /\ samples' = << >>
    /\ cpc' = "detect"
    /\ UNCHANGED last_op
    /\ UNCHANGED << sample_rate, poisoned, callback, appvars,
                    estimate, stabvars, now >>
    /\ UNCHANGED callvars

\* tuner.rs 105-107 with audio.rs 40-43: lock taken, get_samples
update_get_samples ==
    /\ cpc = "idle"
    /\ new_capture = None
    /\ lock_holder = "free"
    /\ ~poisoned
    /\ has_new_data
    /\ lock_holder' = "consumer"
    /\ updated' = FALSE
    /\ snapshot' = samples
    /\ cpc' = "detect"
    /\ UNCHANGED last_op
    /\ UNCHANGED << samples, sample_rate, poisoned, callback, appvars,
                    estimate, stabvars, now >>
    /\ UNCHANGED callvars

\* tuner.rs 109: detect_pitch on the snapshot; the guard is still alive
update_detect ==
    /\ cpc = "detect"
    /\ \E e \in detect_pitch(snapshot) : estimate' = e
    /\ cpc' = "observe"
    /\ UNCHANGED last_op
    /\ UNCHANGED << bufvars, lock_holder, poisoned, callback, appvars,
                    snapshot, stabvars, now >>
    /\ UNCHANGED callvars

\* tuner.rs 109-199: the stabilization, then the guard goes out of scope.
\* A panic unwinds the UI thread: the guard is dropped with the mutex
\* poisoned and update_pitch_detection is never entered again.
update_observe ==
    /\ cpc = "observe"
    /\ LET r == Observe(Stab, estimate)
       IN  /\ r.st.smoothed_cents.exp <= MaxSmoothExp
           /\ SetStab(r.st)
           /\ last_op' = << r.branch, Len(current_note) >>
           /\ poisoned' = (poisoned \/ r.branch = "panic")
           /\ cpc' = IF r.branch = "panic" THEN "panicked" ELSE "idle"
    /\ lock_holder' = "free"
    /\ snapshot' = << >>
    /\ estimate' = None
    /\ UNCHANGED << bufvars, callback, appvars, now >>
    /\ UNCHANGED callvars

\* ------------------------------------------------------- switch ---------
\* tuner.rs 74 with audio.rs 64-96: new_with_device.  default_input_config
\* may fail; the rate is written under the lock (skipped when poisoned);
\* building or starting the stream may fail; on success the new stream runs
\* beside the old one.
switch_device_open ==
    \E d \in Devices, outcome \in { "config_err", "stream_err", "ok" } :
        /\ cpc = "idle"
        /\ new_capture = None
        /\ IF outcome = "config_err"
           THEN /\ last_op' = << "switch_failed", 0 >>
                /\ UNCHANGED << sample_rate, new_capture >>
           ELSE /\ lock_holder = "free"
                /\ sample_rate' = IF poisoned THEN sample_rate ELSE DeviceRate(d)
                /\ IF outcome = "stream_err"
                   THEN /\ last_op' = << "switch_failed", 1 >>
                        /\ UNCHANGED new_capture
                   ELSE /\ new_capture' = Some(d)
                        /\ last_op' = << "switch_opened", 0 >>
        /\ UNCHANGED << samples, updated, lock_holder, poisoned, callback,
                        audio_capture, detector_rate, cyclevars, stabvars, now >>
        /\ UNCHANGED callvars

\* tuner.rs 75-80: the new capture replaces the old one, which is dropped
\* (its callback has returned), and the stabilizer state is cleared
switch_device_finish ==
    /\ IsSome(new_capture)
    /\ callback = None
    /\ audio_capture' = Unwrap(new_capture)
    /\ new_capture' = None
    /\ SetStab(ClearStab(Stab))
    /\ last_op' = << "switch_done", 0 >>
    /\ UNCHANGED << bufvars, lock_holder, poisoned, callback,
                    detector_rate, cyclevars, now >>
    /\ UNCHANGED callvars

Next ==
    \/ Tick
    \/ callback_lock
    \/ callback_lock_poisoned
    \/ callback_push
    \/ update_try_lock_fails
    \/ update_no_new_data
    \/ update_get_samples
    \/ update_detect
    \/ update_observe
    \/ switch_device_open
    \/ switch_device_finish

Spec == Init /\ [][Next]_vars

\* tuner.rs 109, with the wider set of outcomes of detect_pitch
update_detect_wide ==
    /\ cpc = "detect"
    /\ \E e \in detect_pitch_wide(snapshot) : estimate' = e
    /\ cpc' = "observe"
    /\ UNCHANGED last_op
    /\ UNCHANGED << bufvars, lock_holder, poisoned, callback, appvars,
                    snapshot, stabvars, now >>
    /\ UNCHANGED callvars

\* one stream on the default device, no device switch
NextStab ==
    \/ Tick
    \/ callback_lock
    \/ callback_lock_poisoned
    \/ callback_push
    \/ update_try_lock_fails
    \/ update_no_new_data
    \/ update_get_samples
    \/ update_detect_wide
    \/ update_observe

SpecStab == Init /\ [][NextStab]_vars

\* the outcomes needed to hold a note: two loud frequencies 6 Hz apart and
\* one estimate below the magnitude threshold
LiveEstimates ==
    { [frequency |-> 44000, magnitude |-> 30],
      [frequency |-> 44600, magnitude |-> 30],
      [frequency |-> 44000, magnitude |-> 5] }

detect_pitch_live(snap) ==
    IF Len(snap) < buffer_size THEN { None }
    ELSE { None } \cup { Some(e) : e \in LiveEstimates }

\* tuner.rs 109, with these outcomes of detect_pitch
update_detect_live ==
    /\ cpc = "detect"
    /\ \E e \in detect_pitch_live(snapshot) : estimate' = e
    /\ cpc' = "observe"
    /\ UNCHANGED last_op
    /\ UNCHANGED << bufvars, lock_holder, poisoned, callback, appvars,
                    snapshot, stabvars, now >>
    /\ UNCHANGED callvars

NextLive ==
    \/ Tick
    \/ callback_lock
    \/ callback_lock_poisoned
    \/ callback_push
    \/ update_try_lock_fails
    \/ update_no_new_data
    \/ update_get_samples
    \/ update_detect_live
    \/ update_observe

\* the audio thread keeps delivering batches
producer == callback_lock \/ callback_lock_poisoned \/ callback_push

\* tuner.rs 105-107: the three ways a call of update_pitch_detection begins
update_begin == update_try_lock_fails \/ update_no_new_data \/ update_get_samples

\* The clock runs and the audio thread keeps delivering batches.  The UI loop
\* calls update_pitch_detection on every frame and finishes each call; the
\* lock is held by a callback only for the length of one push, so a loop that
\* keeps trying obtains it again and again.
SpecLive ==
    /\ Init
    /\ [][NextLive]_vars
    /\ WF_vars(Tick)
    /\ WF_vars(producer)
    /\ WF_vars(update_begin)
    /\ SF_vars(update_get_samples)
    /\ WF_vars(update_detect_live)
    /\ []<>(cpc # "observe")

\* the outcomes that try each condition of the gate: two frequencies 1 Hz
\* apart at different magnitudes, one 6 Hz away, and one whose magnitude is
\* above the threshold but not above twice the threshold
GateEstimates ==
    { [frequency |-> 44000, magnitude |-> 30],
      [frequency |-> 44100, magnitude |-> 20],
      [frequency |-> 44600, magnitude |-> 30],
      [frequency |-> 44000, magnitude |-> 10] }

detect_pitch_gate(snap) ==
    IF Len(snap) < buffer_size THEN { None }
    ELSE { None } \cup { Some(e) : e \in GateEstimates }

\* tuner.rs 109, with these outcomes of detect_pitch
update_detect_gate ==
    /\ cpc = "detect"
    /\ \E e \in detect_pitch_gate(snapshot) : estimate' = e
    /\ cpc' = "observe"
    /\ UNCHANGED last_op
    /\ UNCHANGED << bufvars, lock_holder, poisoned, callback, appvars,
                    snapshot, stabvars, now >>
    /\ UNCHANGED callvars

\* one stream on the default device, no device switch
NextGate ==
    \/ Tick
    \/ callback_lock
    \/ callback_lock_poisoned
    \/ callback_push
    \/ update_try_lock_fails
    \/ update_no_new_data
    \/ update_get_samples
    \/ update_detect_gate
    \/ update_observe

SpecGate == Init /\ [][NextGate]_vars

\* ------------------------------------------------------- detect alone --
\* every spectrum of NumBins bins with magnitudes up to MaxMagnitude
Spectra == [1..NumBins -> 0..MaxMagnitude]

InitDetect ==
    /\ InitApp
    /\ fn_in \in Spectra
    /\ fn_out = << >>

\* pitch.rs 55-91: one call of detect_pitch on the spectrum
call_detect_pitch ==
    /\ fn_out = << >>
    /\ fn_out' = << detect_pitch_peak(fn_in) >>
    /\ UNCHANGED << fn_in, progvars >>

NextDetect == call_detect_pitch

SpecDetect == InitDetect /\ [][NextDetect]_vars

\* ------------------------------------------------------- note alone ----
\* the frequencies of the test at pitch.rs 137-162
TestFrequencies == { 44000, 22000, 88000, 26163, 49388, 24694 }

\* pitches on, 40 cents around and 50 cents around every semitone in range,
\* and the pitches of the test frequencies
Pitches ==
    { k * SemitoneCents + o :
        k \in (-MaxSemitones)..MaxSemitones, o \in { -5000, -4000, 0, 4000, 5000 } }
    \cup { Log2Cents(f) : f \in TestFrequencies }

InitNote ==
    /\ InitApp
    /\ fn_in \in Pitches
    /\ fn_out = << >>

\* pitch.rs 102-131: one call of frequency_to_note
call_frequency_to_note ==
    /\ fn_out = << >>
    /\ fn_out' = << note_at(fn_in) >>
    /\ UNCHANGED << fn_in, progvars >>

NextNote == call_frequency_to_note

SpecNote == InitNote /\ [][NextNote]_vars

\* ------------------------------------------------------- types ----------
TypeOK ==
    /\ Len(samples) \in 0..BUFFER_SIZE
    /\ lock_holder \in { "free", "producer", "consumer" }
    /\ cpc \in { "idle", "detect", "observe", "panicked" }
    /\ (lock_holder = "producer") = IsSome(callback)
    /\ (lock_holder = "consumer") = (cpc \in { "detect", "observe" })
    /\ (cpc = "panicked") => poisoned
    /\ Len(frequency_history) = Len(magnitude_history)


\* ------------------------------------------------------- properties -----
StabIsReset(note, fh, mh, ch, sm) ==
    /\ note = None
    /\ fh = << >>
    /\ mh = << >>
    /\ ch = << >>
    /\ sm = ZeroCents

\* a consumer cycle starts: one of the three outcomes of try_lock / has_new_data
update_begins == update_try_lock_fails \/ update_no_new_data \/ update_get_samples

\* C1: the buffer lock is never held by the consumer while detect_pitch or
\* the stabilization is executing.
C1_LockNotHeldInDetectOrObserve ==
    ~(lock_holder = "consumer" /\ cpc \in { "detect", "observe" })

\* C2: a consumer cycle that starts while the producer holds the lock ends
\* at once and changes nothing: buffer, updated flag, histories, smoothed
\* cents, note and last_update are the same, the producer still holds the
\* lock, and has_new_data reports what it reported before.
C2_TryLockSkipsCycle ==
    [][ (lock_holder = "producer" /\ update_begins) =>
            /\ UNCHANGED << samples, updated, sample_rate >>
            /\ UNCHANGED stabvars
            /\ cpc' = "idle"
            /\ lock_holder' = "producer"
            /\ has_new_data' = has_new_data ]_vars

\* C2 witness: a cycle was skipped while the producer holds the lock and new
\* data is pending.
C2_Witness ==
    /\ last_op[1] = "skip"
    /\ lock_holder = "producer"
    /\ has_new_data

\* a switch_device request returns: new_with_device failed, or the capture
\* was replaced
switch_returns ==
    \/ (switch_device_open /\ new_capture' = None)
    \/ switch_device_finish

\* C3: after every switch_device request, opened or not, the note is absent,
\* the three histories are empty and smoothed_cents is 0.
C3_SwitchAlwaysResets ==
    [][ switch_returns =>
            StabIsReset(current_note', frequency_history', magnitude_history',
                        cents_history', smoothed_cents') ]_vars

\* C4: a note is never emitted from an estimate whose analysis window holds a
\* sample pushed by the stream of a device other than the current one.
C4_NoNoteFromPreviousDevice ==
    [][ (update_observe /\ Observe(Stab, estimate).branch = "accept") =>
            \A i \in 1..Len(AnalysisWindow(snapshot)) :
                AnalysisWindow(snapshot)[i] = audio_capture ]_vars

\* C5: at every detect_pitch call the detector's sample rate equals the
\* buffer's sample rate.
C5_DetectorRateMatchesBuffer ==
    cpc = "detect" => detector_rate = sample_rate

\* C6: the buffer never holds more than BUFFER_SIZE samples.
C6_LengthBounded == Len(samples) <= BUFFER_SIZE

\* C6 witness: a push that had to evict has filled the buffer to capacity.
C6_Witness ==
    /\ last_op[1] = "push"
    /\ last_op[2] > 0
    /\ Len(samples) = BUFFER_SIZE

\* C7: push never aborts: the mutex is never poisoned by a panic inside
\* push_samples, whatever the batch length.
C7_PushNeverAborts == ~poisoned

MinOf(a, b) == IF a < b THEN a ELSE b
MaxOf(a, b) == IF a > b THEN a ELSE b
LastN(s, n) == SubSeq(s, Len(s) - n + 1, Len(s))

\* C8: after a push of a non-empty batch the buffer is the last
\* min(C, L+n) elements of old content followed by the batch; exactly
\* max(0, L+n-C) oldest samples are gone and the batch is the suffix.
C8_PushKeepsNewest ==
    [][ (callback_push /\ Unwrap(callback).len > 0) =>
            LET batch == Repeat(Unwrap(callback).stream, Unwrap(callback).len)
                all == samples \o batch
                keep == MinOf(BUFFER_SIZE, Len(all))
                gone == MaxOf(0, Len(all) - BUFFER_SIZE)
            IN  /\ samples' = LastN(all, keep)
                /\ Len(samples') = Len(samples) - gone + Len(batch)
                /\ Len(samples') >= Len(batch)
                /\ LastN(samples', Len(batch)) = batch ]_vars

\* C9: has_new_data is false right after get_samples, and it turns from
\* false to true only in a push that leaves at least BUFFER_SIZE/2 samples;
\* every other step leaves it false.
C9_NewDataLatch ==
    [][ /\ (update_get_samples => ~has_new_data')
        /\ ((~has_new_data /\ has_new_data') =>
                /\ callback_push
                /\ ~push_panics(samples, Repeat(Unwrap(callback).stream,
                                                Unwrap(callback).len))
                /\ Len(samples') >= BUFFER_SIZE \div 2) ]_vars

\* C9 witness: right after get_samples the buffer is long enough, yet
\* has_new_data is false.
C9_Witness ==
    /\ cpc = "detect"
    /\ Len(samples) >= BUFFER_SIZE \div 2
    /\ ~has_new_data

\* the silence gate fires: low magnitude for more than 400 ms, or no
\* estimate for more than 500 ms, since last_update
SilenceGateFires ==
    \/ /\ IsSome(estimate)
       /\ Unwrap(estimate).magnitude < min_magnitude_threshold
       /\ now - last_update > StaleLowMs
    \/ /\ estimate = None
       /\ now - last_update > StaleNoneMs

\* C10: a cycle in which the silence gate fires ends with the note absent,
\* the three histories empty and smoothed_cents 0.
C10_SilenceGateResets ==
    [][ (update_observe /\ SilenceGateFires) =>
            StabIsReset(current_note', frequency_history', magnitude_history',
                        cents_history', smoothed_cents') ]_vars

\* C10 witness: the low-magnitude reset has cleared a note that was shown.
C10_Witness ==
    /\ last_op = << "low_reset", 1 >>
    /\ StabIsReset(current_note, frequency_history, magnitude_history,
                   cents_history, smoothed_cents)


\* the estimate is absent or below the magnitude threshold, and the time
\* since last_update is within the window of that branch
DropoutWithinWindow ==
    \/ /\ IsSome(estimate)
       /\ Unwrap(estimate).magnitude < min_magnitude_threshold
       /\ now - last_update <= StaleLowMs
    \/ /\ estimate = None
       /\ now - last_update <= StaleNoneMs

\* C11: a cycle whose estimate is absent or below 0.08 while the time since
\* last_update is within the staleness window (400 ms low, 500 ms absent)
\* leaves note, the three histories, smoothed_cents and last_update as they
\* were.
C11_HoldThroughDropout ==
    [][ (update_observe /\ DropoutWithinWindow) => UNCHANGED stabvars ]_vars

\* C11 witness: a shown note was held through a low-magnitude cycle, with
\* the histories still filled.
C11_Witness ==
    /\ last_op = << "low_hold", 1 >>
    /\ IsSome(current_note)
    /\ Len(frequency_history) = max_history
    /\ Len(cents_history) = max_cents_history


\* the fraction sm equals p / q
SmEq(sm, p, q) == sm.num * q = p * max_cents_history * Pow5(sm.exp)

\* the estimate of this cycle is a finite frequency at a magnitude that
\* passes the threshold and, repeated, the magnitude gate
LoudFinite ==
    /\ IsSome(estimate)
    /\ Unwrap(estimate).frequency # NaN
    /\ Unwrap(estimate).magnitude >= min_magnitude_threshold
    /\ Unwrap(estimate).magnitude > 2 * min_magnitude_threshold

\* this cycle gives the cents history its last missing entry, and since the
\* reset every estimate was the pair of this cycle
IdenticalRunFillsCents ==
    /\ LoudFinite
    /\ current_note = None
    /\ smoothed_cents = ZeroCents
    /\ frequency_history' = Repeat(Unwrap(estimate).frequency, max_history)
    /\ magnitude_history' = Repeat(Unwrap(estimate).magnitude, max_history)
    /\ cents_history = Repeat(frequency_to_note(Unwrap(estimate).frequency).cents_off,
                              max_cents_history - 1)

\* C12: from the reset state, identical (frequency, magnitude) pairs that
\* pass all gates yield a note in the cycle in which the cents history gets
\* its last entry (the 8th), and then smoothed_cents and the note's cents_off
\* are 0.2 times the cents_off of that frequency.
C12_IdenticalRunEmits ==
    [][ (update_observe /\ IdenticalRunFillsCents)
        => /\ IsSome(current_note')
           /\ Len(cents_history') = max_cents_history
           /\ SmEq(smoothed_cents',
                   frequency_to_note(Unwrap(estimate).frequency).cents_off, 5)
           /\ Unwrap(current_note').cents_off = smoothed_cents' ]_vars

\* C12 witness: the first note after the reset, from a run of 441 Hz
\* estimates, whose cents_off is not zero.
C12_Witness ==
    /\ last_op = << "accept", 0 >>
    /\ IsSome(current_note)
    /\ frequency_history = Repeat(44100, max_history)
    /\ cents_history = Repeat(frequency_to_note(44100).cents_off, max_cents_history)
    /\ SmEq(smoothed_cents, frequency_to_note(44100).cents_off, 5)
    /\ smoothed_cents # ZeroCents


\* the histories as lines 121-127 and 156-159 leave them in this cycle
PushedFreq ==
    LET p == Append(frequency_history, Unwrap(estimate).frequency)
    IN  IF Len(p) > max_history THEN Tail(p) ELSE p

PushedMag ==
    LET p == Append(magnitude_history, Unwrap(estimate).magnitude)
    IN  IF Len(p) > max_history THEN Tail(p) ELSE p

\* the candidate of this cycle: the entry at index len / 2 of the sorted
\* frequency history
Candidate ==
    LET sorted == SortAsc(PushedFreq)
    IN  sorted[(Len(sorted) \div 2) + 1]

PushedCents ==
    LET p == Append(cents_history, frequency_to_note(Candidate).cents_off)
    IN  IF Len(p) > max_cents_history THEN Tail(p) ELSE p

\* this cycle reaches the cents gate with a full cents history
ReachesCentsGate ==
    /\ IsSome(estimate)
    /\ Unwrap(estimate).magnitude >= min_magnitude_threshold
    /\ Len(PushedFreq) >= max_history
    /\ \A i \in 1..Len(PushedFreq) : PushedFreq[i] # NaN
    /\ GatePasses(PushedFreq, PushedMag)
    /\ Len(PushedCents) >= max_cents_history

CentsSpread == SeqMax(PushedCents) - SeqMin(PushedCents)

\* C13: a cycle that reaches the cents gate with a full cents history of
\* spread below 20.0 sets smoothed_cents to 0.8 * previous + 0.2 * mean of
\* the cents history, the note to name and frequency of this cycle's median
\* candidate with cents_off the new smoothed_cents, and last_update to now.
C13_CentsAccept ==
    [][ (update_observe /\ ReachesCentsGate /\ CentsSpread < CentsSpreadLimit)
        => /\ smoothed_cents'.num * 5 * Pow5(smoothed_cents.exp)
                = (4 * smoothed_cents.num
                     + SeqSum(PushedCents) * Pow5(smoothed_cents.exp))
                  * Pow5(smoothed_cents'.exp)
           /\ current_note' =
                 Some([name |-> frequency_to_note(Candidate).name,
                       frequency |-> Candidate,
                       cents_off |-> smoothed_cents'])
           /\ last_update' = now
           /\ cents_history' = PushedCents
           /\ frequency_history' = PushedFreq
           /\ magnitude_history' = PushedMag ]_vars

\* C13 witness: a second emission, smoothed from a non-zero previous value
\* towards a mean that differs from the newest cents entry, after the clock
\* has advanced.
C13_Witness ==
    /\ last_op = << "accept", 1 >>
    /\ IsSome(current_note)
    /\ last_update = now
    /\ now > 0
    /\ smoothed_cents.exp = 2
    /\ \E i \in 1..Len(cents_history) :
           cents_history[i] # cents_history[Len(cents_history)]

\* C14: a cycle that reaches the cents gate with a full cents history of
\* spread 20.0 or more leaves the note absent, the cents history empty and
\* smoothed_cents zero, keeps the frequency and magnitude histories as this
\* cycle's push left them, and does not change last_update.
C14_CentsReject ==
    [][ (update_observe /\ ReachesCentsGate /\ CentsSpread >= CentsSpreadLimit)
        => /\ current_note' = None
           /\ cents_history' = << >>
           /\ smoothed_cents' = ZeroCents
           /\ frequency_history' = PushedFreq
           /\ magnitude_history' = PushedMag
           /\ last_update' = last_update ]_vars

\* C14 witness: a shown note was withdrawn by the reject branch, the
\* frequency and magnitude histories staying full.
C14_Witness ==
    /\ last_op = << "reject", 1 >>
    /\ current_note = None
    /\ cents_history = << >>
    /\ Len(frequency_history) = max_history
    /\ Len(magnitude_history) = max_history
    /\ last_update < now


\* the mutex is poisoned: from here on pushes are dropped and cycles skipped
Halted == poisoned

\* the note is shown past both staleness windows
ShownPastWindow == IsSome(current_note) /\ now - last_update > StaleNoneMs

\* C15 as stated: while the producer keeps pushing and the consumer keeps
\* cycling, a note shown past the staleness window is eventually withdrawn
\* or emitted again, whatever estimates arrive.
C15_DeadManTimer ==
    ShownPastWindow ~> (current_note = None \/ last_op[1] = "accept" \/ Halted)

\* an estimate at or above the magnitude threshold is being observed
LoudEstimateArrives ==
    /\ cpc = "observe"
    /\ IsSome(estimate)
    /\ Unwrap(estimate).magnitude >= min_magnitude_threshold

\* C15 amended: while the producer keeps pushing and the consumer keeps
\* cycling, a note shown past the staleness window is eventually withdrawn
\* or emitted again unless an estimate at or above the magnitude threshold
\* arrives; such an estimate that fails the frequency / magnitude gate
\* leaves the note shown.
C15_SilenceTimer ==
    ShownPastWindow
        ~> (current_note = None \/ last_op[1] = "accept" \/ Halted
              \/ LoudEstimateArrives)

\* C15 witness: a note is still shown past the window after a cycle whose
\* loud estimate failed the gate.
C15_Witness ==
    /\ ShownPastWindow
    /\ last_op = << "gate_closed", 1 >>
    /\ cpc = "idle"


\* C16: for every snapshot and every estimate, a non-finite frequency
\* included, the consumer cycle runs to its end without aborting and
\* releases the lock in a usable state, so that pushes and cycles continue.
C16_NoFatalCycle ==
    [][ update_observe
        => /\ cpc' = "idle"
           /\ lock_holder' = "free"
           /\ poisoned' = poisoned ]_vars


\* the peak of the spectrum the call was given
CalledPeak == PeakFrom(fn_in, min_freq_bin, 0, 0)

\* the call has returned a (frequency, magnitude) pair
DetectReturnedSome == fn_out # << >> /\ fn_out[1] # << >>

\* the peak bin is interior and left - 2 * center + right is zero
DegeneratePeak ==
    /\ CalledPeak.max_index > 0
    /\ CalledPeak.max_index < Len(fn_in) - 1
    /\ fn_in[CalledPeak.max_index] - 2 * CalledPeak.max_magnitude
           + fn_in[CalledPeak.max_index + 2] = 0

\* C17: when the peak bin is interior and left - 2 * center + right is
\* exactly zero, detect returns the unrefined bin-centre frequency
\* max_index * sample_rate / buffer_size; it never returns a frequency that
\* comes from a division by zero.
C17_NoDivisionByZero ==
    DetectReturnedSome
    => /\ fn_out[1][1].frequency.den # 0
       /\ DegeneratePeak
          => fn_out[1][1].frequency.num
                 = CalledPeak.max_index * fn_out[1][1].frequency.den


\* the nearest semitone the call settled on, and its distance from C4
CalledSemitone == (fn_in - fn_out[1].cents_off) \div SemitoneCents
CalledFromC4 == CalledSemitone + 9

\* position of a name in the table, counted from 0
NoteIndex(n) == (CHOOSE i \in 1..12 : note_names[i] = n) - 1

\* the names the test frequencies are to be given
ExpectedName(f) ==
    CASE f = 44000 -> << "A", 4 >>
      [] f = 22000 -> << "A", 3 >>
      [] f = 88000 -> << "A", 5 >>
      [] f = 26163 -> << "C", 4 >>
      [] f = 49388 -> << "B", 4 >>
      [] f = 24694 -> << "B", 3 >>

\* C18: with c the nearest semitone's distance from C4, the name is
\* table[((c mod 12) + 12) mod 12] with octave 4 + floor(c / 12), for c on
\* both sides of zero, so that note index + 12 * (octave - 4) = c; and 440,
\* 220, 880, 261.63, 493.88 and 246.94 Hz are named A4, A3, A5, C4, B4 and B3
\* with cents near zero.
C18_NoteNaming ==
    fn_out # << >>
    => /\ fn_in = CalledSemitone * SemitoneCents + fn_out[1].cents_off
       /\ 2 * Abs(fn_out[1].cents_off) <= SemitoneCents
       /\ fn_out[1].name[1] = note_names[(((CalledFromC4 % 12) + 12) % 12) + 1]
       /\ fn_out[1].name[2] = 4 + (CalledFromC4 \div 12)
       /\ NoteIndex(fn_out[1].name[1]) + 12 * (fn_out[1].name[2] - 4) = CalledFromC4
       /\ \A f \in TestFrequencies :
              fn_in = Log2Cents(f)
              => /\ fn_out[1].name = ExpectedName(f)
                 /\ Abs(fn_out[1].cents_off) < SemitoneCents \div 10

\* C18 witness: 246.94 Hz, one semitone below C4, was named B3.
C18_Witness ==
    /\ fn_in = Log2Cents(24694)
    /\ fn_out = << [name |-> << "B", 3 >>, cents_off |-> -1] >>
    /\ CalledFromC4 = -1


\* C19: get_samples returns a copy of the whole buffer content and consumes
\* nothing: content, length and sample rate stay as they were and only the
\* updated flag is cleared; so the buffer length never decreases over any
\* sequence of pushes and reads.
C19_GetSamplesCopies ==
    [][ /\ update_get_samples
           => /\ snapshot' = samples
              /\ samples' = samples
              /\ sample_rate' = sample_rate
              /\ updated' = FALSE
        /\ Len(samples') >= Len(samples) ]_vars

\* C19 witness: a buffer filled by a push that evicted samples has been
\* read and is still full, with the flag cleared.
C19_Witness ==
    /\ cpc = "detect"
    /\ snapshot = samples
    /\ Len(samples) = BUFFER_SIZE
    /\ ~updated
    /\ last_op[1] = "push"
    /\ last_op[2] > 0

\* C20: a push of an empty batch changes neither the content nor the
\* updated flag, so an empty push after get_samples does not make
\* has_new_data true.
C20_EmptyPushIsNoOp ==
    [][ (callback_push /\ Unwrap(callback).len = 0)
        => (samples' = samples /\ updated' = updated) ]_vars


\* the capture streams that are playing: the one TunerApp owns and, inside
\* switch_device, the one new_with_device has just started
ActiveStreams == 1 + Len(new_capture)

\* C21: during a device switch the old stream is torn down before the new
\* one is constructed: at no point are two capture streams active, and no
\* batch of the old stream is pushed once the new stream has been started.
C21_OneStreamAtATime ==
    /\ ActiveStreams <= 1
    /\ IsSome(callback) /\ IsSome(new_capture)
           => Unwrap(callback).stream = Unwrap(new_capture)


\* this cycle pushes its estimate: it is present with magnitude >= 0.08
PushesEstimate ==
    /\ IsSome(estimate)
    /\ Unwrap(estimate).magnitude >= min_magnitude_threshold

\* the four conditions of the gate on the histories after this cycle's push,
\* with avg = sum / n multiplied out
GateOpen ==
    LET fh == PushedFreq
        mh == PushedMag
        n == Len(mh)
        sum == SeqSum(mh)
    IN  /\ Len(fh) = max_history
        /\ \A i, j \in 1..Len(fh) : fh[i] - fh[j] < stability_threshold
        /\ \A i \in 1..n : 2 * Abs(n * mh[i] - sum) < sum
        /\ 100 * sum > 16 * n

FifoPush(s, x, cap) ==
    IF Len(s) + 1 > cap THEN SubSeq(s, 2, Len(s)) \o << x >> ELSE s \o << x >>

\* one of the estimates fed here, found by its frequency and magnitude
FromOneEstimate(f, m) ==
    \E e \in GateEstimates : e.frequency = f /\ e.magnitude = m

\* C23: between consumer cycles the frequency and the magnitude history have
\* the same length, at most 8, and entry i of each comes from the same
\* estimate; the cents history has at most 8 entries; a cycle either leaves
\* a history as it is, empties it, or appends the new entry at the end and
\* on overflow evicts exactly the oldest.
C23_HistoriesAligned ==
    [][ /\ cpc' = "idle"
           => /\ Len(frequency_history') = Len(magnitude_history')
              /\ Len(frequency_history') <= max_history
              /\ Len(cents_history') <= max_cents_history
              /\ \A i \in 1..Len(frequency_history') :
                     FromOneEstimate(frequency_history'[i], magnitude_history'[i])
        /\ update_observe
           => /\ \/ UNCHANGED << frequency_history, magnitude_history >>
                 \/ frequency_history' = << >> /\ magnitude_history' = << >>
                 \/ /\ PushesEstimate
                    /\ frequency_history' =
                          FifoPush(frequency_history,
                                   Unwrap(estimate).frequency, max_history)
                    /\ magnitude_history' =
                          FifoPush(magnitude_history,
                                   Unwrap(estimate).magnitude, max_history)
              /\ \/ cents_history' = cents_history
                 \/ cents_history' = << >>
                 \/ \E c \in { frequency_to_note(e.frequency).cents_off :
                                  e \in GateEstimates } :
                        cents_history' = FifoPush(cents_history, c, max_cents_history)
      ]_vars

\* C23 witness: full histories whose entries differ, after a push that evicted
\* the oldest pair, with a full cents history.
C23_Witness ==
    /\ cpc = "idle"
    /\ last_op[1] = "accept"
    /\ Len(frequency_history) = max_history
    /\ frequency_history[1] = 44100
    /\ magnitude_history[1] = 20
    /\ frequency_history[max_history] = 44000
    /\ magnitude_history[max_history] = 30
    /\ Len(cents_history) = max_cents_history
    /\ cents_history[1] # cents_history[max_cents_history]


\* v is the element at index Len(fh) \div 2 (counted from 0) of fh in
\* ascending order: at most that many entries are smaller and more than that
\* many are not larger
IsUpperMedian(v, fh) ==
    /\ \E i \in 1..Len(fh) : fh[i] = v
    /\ Cardinality({ i \in 1..Len(fh) : fh[i] < v }) <= Len(fh) \div 2
    /\ Cardinality({ i \in 1..Len(fh) : fh[i] <= v }) > Len(fh) \div 2

\* the cycle reached the mapping of the representative frequency to a note
MapsToNote ==
    update_observe /\ last_op'[1] \in { "cents_filling", "accept", "reject" }

\* C24: the frequency mapped to a note is the element at index length/2 of
\* the ascending-sorted frequency history (the upper median), and the
\* frequency history itself stays in arrival order.
C24_UpperMedian ==
    [][ MapsToNote
        => /\ frequency_history' = PushedFreq
           /\ last_op'[1] # "reject"
              => \E i \in 1..Len(PushedFreq) :
                    LET v == PushedFreq[i] IN
                    /\ IsUpperMedian(v, PushedFreq)
                    /\ cents_history'[Len(cents_history')]
                          = frequency_to_note(v).cents_off
                    /\ last_op'[1] = "accept"
                       => /\ Unwrap(current_note').frequency = v
                          /\ Unwrap(current_note').name = frequency_to_note(v).name
      ]_vars

\* C24 witness: a note emitted from a history that is not in ascending order
\* and whose two middle values differ.
C24_Witness ==
    /\ last_op[1] = "accept"
    /\ frequency_history[1] = 44100
    /\ frequency_history[max_history] = 44000
    /\ IsSome(current_note)
    /\ Unwrap(current_note).frequency = 44100


\* C25: between consumer cycles, a present note carries smoothed_cents as its
\* cents_off, and with no note smoothed_cents is 0.
C25_NoteCarriesSmoothedCents ==
    cpc = "idle"
    => /\ IsSome(current_note)
          => Unwrap(current_note).cents_off = smoothed_cents
       /\ current_note = None => smoothed_cents = ZeroCents

\* C25 witness: a note with a nonzero smoothed value, kept through a later
\* cycle that emitted nothing.
C25_Witness ==
    /\ cpc = "idle"
    /\ last_op[1] \in { "low_hold", "none_hold" }
    /\ IsSome(current_note)
    /\ smoothed_cents # ZeroCents
    /\ Unwrap(current_note).cents_off = smoothed_cents


\* a lower bound on the number of estimates of magnitude >= 0.08 observed
\* since the last reset state, read off the histories fh and ch: the
\* frequency history takes one estimate per entry, and the first cents entry
\* comes with the estimate that fills the frequency history
LoudSeen(fh, ch) ==
    IF Len(ch) = 0 THEN Len(fh) ELSE max_history - 1 + Len(ch)

\* the estimates needed before the first note
MinLoudEstimates == max_history + max_cents_history - 1

\* C26: from the reset state the note stays absent until at least 15
\* (max_history + max_cents_history - 1) estimates of magnitude >= 0.08 were
\* observed.  LoudSeen is 0 in the reset state, grows by at most one and only
\* in a cycle that observes such an estimate, and is at least 15 whenever a
\* note is present; the cents history grows by one entry only in a cycle
\* whose frequency history is full, and a note appears only with a full
\* cents history.
C26_FifteenEstimatesBeforeNote ==
    [][ /\ StabIsReset(current_note', frequency_history', magnitude_history',
                       cents_history', smoothed_cents')
           => LoudSeen(frequency_history', cents_history') = 0
        /\ IF update_observe /\ PushesEstimate
           THEN LoudSeen(frequency_history', cents_history')
                   <= LoudSeen(frequency_history, cents_history) + 1
           ELSE LoudSeen(frequency_history', cents_history')
                   <= LoudSeen(frequency_history, cents_history)
        /\ IsSome(current_note')
           => /\ LoudSeen(frequency_history', cents_history') >= MinLoudEstimates
              /\ Len(cents_history') = max_cents_history
        /\ Len(cents_history') > Len(cents_history)
           => /\ update_observe /\ PushesEstimate
              /\ Len(frequency_history') = max_history
              /\ Len(cents_history') = Len(cents_history) + 1
      ]_vars

\* C26 witness: the first note after a reset, emitted in this cycle after the
\* clock advanced, with both histories full and the count at its minimum.
C26_Witness ==
    /\ last_op = << "accept", 0 >>
    /\ IsSome(current_note)
    /\ now > 0
    /\ last_update = now
    /\ Len(frequency_history) = max_history
    /\ Len(cents_history) = max_cents_history
    /\ LoudSeen(frequency_history, cents_history) = MinLoudEstimates

=============================================================================
